---- MODULE Spec2Model ----
(***************************************************************************)
(* Model of prangel-git/agent-environment: the tic-tac-toe Board           *)
(* (src/src/tictactoe/environment.rs), its action iterator NextAction and  *)
(* the driver play_game (src/src/abstract_game/mod.rs).                    *)
(*                                                                         *)
(* A u16 / u8 value is a natural number below 2^16 / 2^8.  The shifts and  *)
(* the u8 increment keep Rust's semantics: with overflow checks (a debug   *)
(* build) an overflowing shift or addition panics, without them (a release *)
(* build) the shift amount is masked and the addition wraps.  Every call   *)
(* draws the build it runs in (oc: overflow checks on or off), so a        *)
(* behaviour of either build is a behaviour of the model.                  *)
(***************************************************************************)
EXTENDS Integers, Sequences, FiniteSets, TLC

VARIABLES
    panicked,        \* the program has aborted with a panic
    board,           \* the Board: [moves_x, moves_o, turn]
    op,              \* the call in progress: "idle" when none
    arg,             \* its argument
    ret,             \* its outcome: Panic or Ok(value)
    old,             \* the Board as it was when the call was made
    iter,            \* the NextAction of the call: [board_state, current]
    yielded,         \* the actions next() has returned on iter, in order
    nones,           \* how many times next() has returned None on iter
    agents,          \* play_game: identities of the agent list, in list order
    pc,              \* play_game: "while", "for", "done" ("off": not running)
    idx,             \* play_game: position of the inner scan in agents
    game_log,        \* play_game: the log, a sequence of <<identity, action>>
    pass,            \* play_game: how many times the for loop has been entered
    asked            \* play_game: one record per agent.action(env) requested

vars == << panicked, board, op, arg, ret, old, iter, yielded,
           nones, agents, pc, idx, game_log, pass, asked >>

----------------------------------------------------------------------------
(* Widths of the machine integers and the inputs the model draws.          *)

\* u16::BITS, the width of moves_x, moves_o and NextAction.board_state.
U16_BITS == 16

\* u8::MAX, the largest value of the Action type.
U8_MAX == 255

\* Actions 0..MaxAction are drawn as inputs, together with the two shift
\* amounts around the width of a u16 and with U8_MAX.
MaxAction == 9

\* Calls of next() made on one iterator after it first returned None.
MaxCallsAfterNone == 1

Actions == (0..MaxAction) \cup {U16_BITS - 1, U16_BITS, U8_MAX}

Cells == 0..8

----------------------------------------------------------------------------
(* Bit operations on naturals.                                             *)

RECURSIVE BitAnd(_, _)
BitAnd(x, y) ==
    IF x = 0 \/ y = 0 THEN 0
    ELSE (x % 2) * (y % 2) + 2 * BitAnd(x \div 2, y \div 2)

RECURSIVE BitOr(_, _)
BitOr(x, y) ==
    IF x = 0 THEN y
    ELSE IF y = 0 THEN x
    ELSE (IF x % 2 = 1 \/ y % 2 = 1 THEN 1 ELSE 0) + 2 * BitOr(x \div 2, y \div 2)

\* The outcome of a call: a panic, or a value.
Panic == [panic |-> TRUE]
Ok(v) == [panic |-> FALSE, val |-> v]

\* x >> n on a u16: a shift amount of the width or more panics under overflow
\* checks; without them the amount is masked to the width.
Shr(x, n, oc) ==
    IF n >= U16_BITS /\ oc THEN Panic
    ELSE Ok(x \div (2 ^ (n % U16_BITS)))

\* 1 << n on a u16, likewise.
Shl1(n, oc) ==
    IF n >= U16_BITS /\ oc THEN Panic
    ELSE Ok((2 ^ (n % U16_BITS)) % (2 ^ U16_BITS))

\* c + 1 on a u8: panics at u8::MAX under overflow checks, wraps without them.
Inc8(c, oc) ==
    IF c = U8_MAX THEN (IF oc THEN Panic ELSE Ok(0))
    ELSE Ok(c + 1)

----------------------------------------------------------------------------
(* AgentId, Board and the free functions.                                  *)

AgentId == {"X", "O"}

None == << >>
Some(v) == << v >>

Board(mx, mo, t) == [moves_x |-> mx, moves_o |-> mo, turn |-> t]

\* initial_state with O to move first.
initial_state_o_first == Board(0, 0, "O")

initial_state == Board(0, 0, "X")

\* winning_masks with the anti-diagonal mistyped.
winning_masks_typo == << 7, 56, 448, 73, 146, 292, 273, 85 >>

winning_masks == << 7, 56, 448, 73, 146, 292, 273, 84 >>

is_winning(position) ==
    \E i \in 1..Len(winning_masks) :
        BitAnd(position, winning_masks[i]) = winning_masks[i]

full == 511

is_filled(b) == BitAnd(BitOr(b.moves_x, b.moves_o), full) = full

\* is_valid without the test of O's mask.
is_valid_ignores_o(b, a, oc) ==
    LET a_bounded == a <= 8
        sx == Shr(b.moves_x, a, oc)
        so == Shr(b.moves_o, a, oc)
    IN  IF sx.panic \/ so.panic THEN Panic
        ELSE LET x_empty == ~((sx.val % 2) = 1)
             IN  Ok(a_bounded /\ x_empty)

\* Ok(bool), or Panic when a shift by `a` panics.  The three lets are
\* evaluated in order, before the non-short-circuit `&`.
is_valid(b, a, oc) ==
    LET a_bounded == a <= 8
        sx == Shr(b.moves_x, a, oc)
        so == Shr(b.moves_o, a, oc)
    IN  IF sx.panic \/ so.panic THEN Panic
        ELSE LET x_empty == ~((sx.val % 2) = 1)
                 y_empty == ~((so.val % 2) = 1)
             IN  Ok(a_bounded /\ x_empty /\ y_empty)

\* is_terminal without the test of O's position.
is_terminal_ignores_o(b) ==
    IF is_winning(b.moves_x) THEN TRUE
    ELSE IF is_filled(b) THEN TRUE
    ELSE FALSE

is_terminal(b) ==
    IF is_winning(b.moves_x) THEN TRUE
    ELSE IF is_winning(b.moves_o) THEN TRUE
    ELSE IF is_filled(b) THEN TRUE
    ELSE FALSE

turn(b) == b.turn

winner(b) ==
    IF is_winning(b.moves_x) THEN Some("X")
    ELSE IF is_winning(b.moves_o) THEN Some("O")
    ELSE None

\* update that leaves the turn with O after O's move.
update_keeps_turn(b, a, oc) ==
    LET v == is_valid(b, a, oc)
    IN  IF v.panic THEN Panic
        ELSE IF ~v.val THEN Ok([board |-> b, ret |-> FALSE])
        ELSE LET m == Shl1(a, oc)
             IN  IF m.panic THEN Panic
                 ELSE IF b.turn = "X"
                 THEN Ok([board |-> Board(BitOr(b.moves_x, m.val), b.moves_o, "O"),
                          ret |-> TRUE])
                 ELSE Ok([board |-> Board(b.moves_x, BitOr(b.moves_o, m.val), "O"),
                          ret |-> TRUE])

\* update that flips the turn on a rejected action as well.
update_rejected_flips_turn(b, a, oc) ==
    LET v == is_valid(b, a, oc)
    IN  IF v.panic THEN Panic
        ELSE IF ~v.val
        THEN Ok([board |-> Board(b.moves_x, b.moves_o,
                                 IF b.turn = "X" THEN "O" ELSE "X"),
                 ret |-> FALSE])
        ELSE LET m == Shl1(a, oc)
             IN  IF m.panic THEN Panic
                 ELSE IF b.turn = "X"
                 THEN Ok([board |-> Board(BitOr(b.moves_x, m.val), b.moves_o, "O"),
                          ret |-> TRUE])
                 ELSE Ok([board |-> Board(b.moves_x, BitOr(b.moves_o, m.val), "X"),
                          ret |-> TRUE])

\* Ok([board, ret]): the Board update(a) leaves behind and the bool it
\* returns; Panic when it panics (before any assignment to the Board).
update(b, a, oc) ==
    LET v == is_valid(b, a, oc)
    IN  IF v.panic THEN Panic
        ELSE IF ~v.val THEN Ok([board |-> b, ret |-> FALSE])
        ELSE LET m == Shl1(a, oc)
             IN  IF m.panic THEN Panic
                 ELSE IF b.turn = "X"
                 THEN Ok([board |-> Board(BitOr(b.moves_x, m.val), b.moves_o, "O"),
                          ret |-> TRUE])
                 ELSE Ok([board |-> Board(b.moves_x, BitOr(b.moves_o, m.val), "X"),
                          ret |-> TRUE])

\* Ok(the updated clone), or Panic.
what_if(b, a, oc) ==
    LET clone == b
        u == update(clone, a, oc)
    IN  IF u.panic THEN Panic ELSE Ok(u.val.board)

\* The nine cells Display writes, in the order it writes them.
RECURSIVE fmt_cells(_, _, _)
fmt_cells(x, o, n) ==
    IF n = 0 THEN << >>
    ELSE LET x_pos == (x % 2) = 1
             o_pos == (o % 2) = 1
             cell  == IF x_pos /\ ~o_pos THEN "| X |"
                      ELSE IF ~x_pos /\ o_pos THEN "| O |"
                      ELSE IF ~x_pos /\ ~o_pos THEN "|   |"
                      ELSE "| ? |"
         IN  << cell >> \o fmt_cells(x \div 2, o \div 2, n - 1)

fmt(b) == fmt_cells(b.moves_x, b.moves_o, 9)

----------------------------------------------------------------------------
(* NextAction: the iterator valid_actions() returns.                       *)

NextAction(bs, c) == [board_state |-> bs, current |-> c]

\* NextAction::new without the terminal test.
NextAction_new_from_zero(b) ==
    LET board_state == BitOr(b.moves_o, b.moves_x)
    IN  NextAction(board_state, 0)

NextAction_new(b) ==
    LET board_state == BitOr(b.moves_o, b.moves_x)
        current == IF is_terminal(b) THEN 9 ELSE 0
    IN  NextAction(board_state, current)

valid_actions(b) == NextAction_new(b)

\* The while loop of next(): Ok(the iterator after it), or Panic.
RECURSIVE skip_occupied(_, _)
skip_occupied(it, oc) ==
    IF it.board_state % 2 = 1
    THEN LET c == Inc8(it.current, oc)
         IN  IF c.panic THEN Panic
             ELSE skip_occupied(NextAction(it.board_state \div 2, c.val), oc)
    ELSE Ok(it)

\* next() with the range test off by one.
next_off_by_one(it, oc) ==
    LET s == skip_occupied(it, oc)
    IN  IF s.panic THEN Panic
        ELSE LET output == IF s.val.current > 7 THEN None ELSE Some(s.val.current)
                 c == Inc8(s.val.current, oc)
             IN  IF c.panic THEN Panic
                 ELSE Ok([it  |-> NextAction(s.val.board_state \div 2, c.val),
                          out |-> output])

\* Ok([it, out]): the iterator after next() and the Option it returns.
next(it, oc) ==
    LET s == skip_occupied(it, oc)
    IN  IF s.panic THEN Panic
        ELSE LET output == IF s.val.current > 8 THEN None ELSE Some(s.val.current)
                 c == Inc8(s.val.current, oc)
             IN  IF c.panic THEN Panic
                 ELSE Ok([it  |-> NextAction(s.val.board_state \div 2, c.val),
                          out |-> output])

----------------------------------------------------------------------------
(* The Board's operations, called one at a time by a client.  A call       *)
(* records its argument, its outcome and the Board it was made on; Return  *)
(* is the client dropping them before its next call.  A panic ends the     *)
(* program.                                                                *)

NoIter == NextAction(0, 0)

NoRet == Ok(FALSE)

Init ==
    /\ panicked = FALSE
    /\ board = initial_state
    /\ op = "idle"
    /\ arg = 0
    /\ ret = NoRet
    /\ old = initial_state
    /\ iter = NoIter
    /\ yielded = << >>
    /\ nones = 0
    /\ agents = << >>
    /\ pc = "off"
    /\ idx = 0
    /\ game_log = << >>
    /\ pass = 0
    /\ asked = << >>

CanCall == op = "idle" /\ ~panicked /\ pc = "off"

GameVars == << agents, pc, idx, game_log, pass, asked >>

IterVars == << iter, yielded, nones >>

\* The bookkeeping of a call that is not an iterator call.
Called(name, a, r) ==
    /\ op' = name
    /\ arg' = a
    /\ ret' = r
    /\ old' = board
    /\ panicked' = r.panic
    /\ UNCHANGED << IterVars, GameVars >>

Update(a, oc) ==
    /\ CanCall
    /\ LET u == update(board, a, oc)
       IN  /\ board' = IF u.panic THEN board ELSE u.val.board
           /\ Called("update", a, IF u.panic THEN Panic ELSE Ok(u.val.ret))

WhatIf(a, oc) ==
    /\ CanCall
    /\ board' = board
    /\ Called("what_if", a, what_if(board, a, oc))

IsValid(a, oc) ==
    /\ CanCall
    /\ board' = board
    /\ Called("is_valid", a, is_valid(board, a, oc))

IsTerminal ==
    /\ CanCall
    /\ board' = board
    /\ Called("is_terminal", 0, Ok(is_terminal(board)))

Winner ==
    /\ CanCall
    /\ board' = board
    /\ Called("winner", 0, Ok(winner(board)))

Display ==
    /\ CanCall
    /\ board' = board
    /\ Called("fmt", 0, Ok(fmt(board)))

\* is_winning is a free function of its argument alone: it is called on every
\* 9-bit position from the initial state, where the Board plays no part.
IsWinning(position) ==
    /\ CanCall
    /\ board = initial_state
    /\ board' = board
    /\ Called("is_winning", position, Ok(is_winning(position)))

ValidActions ==
    /\ CanCall
    /\ op' = "valid_actions"
    /\ iter' = valid_actions(board)
    /\ yielded' = << >>
    /\ nones' = 0
    /\ arg' = 0
    /\ ret' = NoRet
    /\ old' = board
    /\ UNCHANGED << panicked, board, GameVars >>

IterNext(oc) ==
    /\ op \in {"valid_actions", "next"}
    /\ ~panicked
    /\ nones <= MaxCallsAfterNone
    /\ LET n == next(iter, oc)
       IN  /\ op' = "next"
           /\ panicked' = n.panic
           /\ ret' = IF n.panic THEN Panic ELSE Ok(n.val.out)
           /\ iter' = IF n.panic THEN iter ELSE n.val.it
           /\ yielded' = IF n.panic \/ n.val.out = None THEN yielded
                         ELSE yielded \o n.val.out
           /\ nones' = IF n.panic \/ n.val.out # None THEN nones ELSE nones + 1
    /\ UNCHANGED << board, arg, old, GameVars >>

Return ==
    /\ op # "idle"
    /\ ~panicked
    /\ pc = "off"
    /\ op' = "idle"
    /\ arg' = 0
    /\ ret' = NoRet
    /\ old' = initial_state
    /\ iter' = NoIter
    /\ yielded' = << >>
    /\ nones' = 0
    /\ UNCHANGED << panicked, board, GameVars >>

Next ==
    \/ \E a \in Actions, oc \in BOOLEAN : Update(a, oc)
    \/ \E a \in Actions, oc \in BOOLEAN : WhatIf(a, oc)
    \/ \E a \in Actions, oc \in BOOLEAN : IsValid(a, oc)
    \/ IsTerminal
    \/ Winner
    \/ Display
    \/ \E position \in 0..full : IsWinning(position)
    \/ ValidActions
    \/ \E oc \in BOOLEAN : IterNext(oc)
    \/ Return

Spec == Init /\ [][Next]_vars

----------------------------------------------------------------------------
(* play_game(env, agents) on the Board.  An agent is its identity() and    *)
(* the action it answers with; env.update(&identity, &action) is the       *)
(* Board's update of the action.  One step is the loop test of line 19,    *)
(* or one turn of the for loop of line 21.  pass and asked record the      *)
(* history of the run; the code does not read them.                        *)

\* An agent answers with one of the MaxChoices lowest cells is_valid accepts.
MaxChoices == 3

ValidChoices(b) ==
    {a \in Cells : /\ \E oc \in BOOLEAN : is_valid(b, a, oc) = Ok(TRUE)
                   /\ Cardinality({c \in 0..(a - 1) :
                          \E oc \in BOOLEAN : is_valid(b, c, oc) = Ok(TRUE)}) < MaxChoices}

AgentLists == { << "X", "O" >>, << "O", "X" >> }

InitGame ==
    /\ panicked = FALSE
    /\ board = initial_state
    /\ op = "idle"
    /\ arg = 0
    /\ ret = NoRet
    /\ old = initial_state
    /\ iter = NoIter
    /\ yielded = << >>
    /\ nones = 0
    /\ agents \in AgentLists
    /\ pc = "while"
    /\ idx = 0
    /\ game_log = << >>
    /\ pass = 0
    /\ asked = << >>

CallVars == << op, arg, ret, old, iter, yielded, nones >>

\* What is recorded of one request: the agent (its place in the list and its
\* identity), its answer, the turn and the terminality of the board it was
\* shown, the pass of the while loop, and what env.update made of the answer.
Request(i, identity, action, u) ==
    [ agent    |-> i,
      id       |-> identity,
      action   |-> action,
      turn     |-> turn(board),
      terminal |-> is_terminal(board),
      pass     |-> pass,
      result   |-> IF u.panic THEN "panic" ELSE IF u.val.ret THEN "true" ELSE "false",
      before   |-> board,
      after    |-> IF u.panic THEN board ELSE u.val.board ]

\* While that loops until there is a winner.
While_until_winner ==
    /\ pc = "while"
    /\ ~panicked
    /\ IF winner(board) # None
       THEN pc' = "done" /\ idx' = idx /\ pass' = pass
       ELSE pc' = "for" /\ idx' = 1 /\ pass' = pass + 1
    /\ UNCHANGED << panicked, board, agents, game_log, asked, CallVars >>

\* While that tests the board after the first pass only (a do-while).
While_tests_after ==
    /\ pc = "while"
    /\ ~panicked
    /\ IF is_terminal(board) /\ pass > 0
       THEN pc' = "done" /\ idx' = idx /\ pass' = pass
       ELSE pc' = "for" /\ idx' = 1 /\ pass' = pass + 1
    /\ UNCHANGED << panicked, board, agents, game_log, asked, CallVars >>

\* Line 19: while !env.is_terminal(); line 33: return game_log.
While ==
    /\ pc = "while"
    /\ ~panicked
    /\ IF is_terminal(board)
       THEN pc' = "done" /\ idx' = idx /\ pass' = pass
       ELSE pc' = "for" /\ idx' = 1 /\ pass' = pass + 1
    /\ UNCHANGED << panicked, board, agents, game_log, asked, CallVars >>

\* Line 21: the agent list is exhausted, the for loop ends.
ForEnd ==
    /\ pc = "for"
    /\ ~panicked
    /\ idx > Len(agents)
    /\ pc' = "while"
    /\ UNCHANGED << panicked, board, agents, idx, game_log, pass, asked, CallVars >>

\* Lines 22-23: the agent's identity is not the turn: it is passed over.
ForSkip ==
    /\ pc = "for"
    /\ ~panicked
    /\ idx <= Len(agents)
    /\ agents[idx] # turn(board)
    /\ idx' = idx + 1
    /\ UNCHANGED << panicked, board, agents, pc, game_log, pass, asked, CallVars >>

\* ForPoll that logs the turn it reads after the update.
ForPoll_logs_turn(action, oc) ==
    /\ pc = "for"
    /\ ~panicked
    /\ idx <= Len(agents)
    /\ LET identity == agents[idx]
           u == update(board, action, oc)
       IN  /\ identity = turn(board)
           /\ asked' = Append(asked, Request(idx, identity, action, u))
           /\ panicked' = u.panic
           /\ board' = IF u.panic THEN board ELSE u.val.board
           /\ game_log' = IF u.panic THEN game_log
                          ELSE Append(game_log, << turn(u.val.board), action >>)
           /\ IF u.panic THEN UNCHANGED << pc, idx >>
              ELSE IF is_terminal(u.val.board)
                   THEN pc' = "while" /\ idx' = idx
                   ELSE pc' = pc /\ idx' = idx + 1
    /\ UNCHANGED << agents, pass, CallVars >>

\* ForPoll that logs an answer only when update accepts it.
ForPoll_logs_accepted(action, oc) ==
    /\ pc = "for"
    /\ ~panicked
    /\ idx <= Len(agents)
    /\ LET identity == agents[idx]
           u == update(board, action, oc)
       IN  /\ identity = turn(board)
           /\ asked' = Append(asked, Request(idx, identity, action, u))
           /\ panicked' = u.panic
           /\ board' = IF u.panic THEN board ELSE u.val.board
           /\ game_log' = IF u.panic \/ ~u.val.ret THEN game_log
                          ELSE Append(game_log, << identity, action >>)
           /\ IF u.panic THEN UNCHANGED << pc, idx >>
              ELSE IF is_terminal(u.val.board)
                   THEN pc' = "while" /\ idx' = idx
                   ELSE pc' = pc /\ idx' = idx + 1
    /\ UNCHANGED << agents, pass, CallVars >>

\* ForPoll without the test of the agent's identity against the turn.
ForPoll_asks_anyone(action, oc) ==
    /\ pc = "for"
    /\ ~panicked
    /\ idx <= Len(agents)
    /\ LET identity == agents[idx]
           u == update(board, action, oc)
       IN  /\ asked' = Append(asked, Request(idx, identity, action, u))
           /\ panicked' = u.panic
           /\ board' = IF u.panic THEN board ELSE u.val.board
           /\ game_log' = IF u.panic THEN game_log
                          ELSE Append(game_log, << identity, action >>)
           /\ IF u.panic THEN UNCHANGED << pc, idx >>
              ELSE IF is_terminal(u.val.board)
                   THEN pc' = "while" /\ idx' = idx
                   ELSE pc' = pc /\ idx' = idx + 1
    /\ UNCHANGED << agents, pass, CallVars >>

\* ForPoll without the break on a terminal board.
ForPoll_no_break(action, oc) ==
    /\ pc = "for"
    /\ ~panicked
    /\ idx <= Len(agents)
    /\ LET identity == agents[idx]
           u == update(board, action, oc)
       IN  /\ identity = turn(board)
           /\ asked' = Append(asked, Request(idx, identity, action, u))
           /\ panicked' = u.panic
           /\ board' = IF u.panic THEN board ELSE u.val.board
           /\ game_log' = IF u.panic THEN game_log
                          ELSE Append(game_log, << identity, action >>)
           /\ IF u.panic THEN UNCHANGED << pc, idx >>
              ELSE pc' = pc /\ idx' = idx + 1
    /\ UNCHANGED << agents, pass, CallVars >>

\* Lines 22-29: the agent whose identity is the turn answers `action`; it is
\* submitted and logged, and the scan breaks when the board is terminal.
ForPoll(action, oc) ==
    /\ pc = "for"
    /\ ~panicked
    /\ idx <= Len(agents)
    /\ LET identity == agents[idx]
           u == update(board, action, oc)
       IN  /\ identity = turn(board)
           /\ asked' = Append(asked, Request(idx, identity, action, u))
           /\ panicked' = u.panic
           /\ board' = IF u.panic THEN board ELSE u.val.board
           /\ game_log' = IF u.panic THEN game_log
                          ELSE Append(game_log, << identity, action >>)
           /\ IF u.panic THEN UNCHANGED << pc, idx >>
              ELSE IF is_terminal(u.val.board)
                   THEN pc' = "while" /\ idx' = idx
                   ELSE pc' = pc /\ idx' = idx + 1
    /\ UNCHANGED << agents, pass, CallVars >>

\* The agents answer with valid actions only.
NextGame ==
    \/ While
    \/ ForEnd
    \/ ForSkip
    \/ \E action \in ValidChoices(board), oc \in BOOLEAN : ForPoll(action, oc)

SpecGame == InitGame /\ [][NextGame]_vars

\* In the runs checked for termination an agent answers with one of the
\* MaxFairChoices lowest cells is_valid accepts.
MaxFairChoices == 2

FairChoices(b) ==
    {a \in ValidChoices(b) :
        Cardinality({c \in ValidChoices(b) : c < a}) < MaxFairChoices}

NextGameFair ==
    \/ While
    \/ ForEnd
    \/ ForSkip
    \/ \E action \in FairChoices(board), oc \in BOOLEAN : ForPoll(action, oc)

\* play_game runs on: a step is taken as long as one is enabled (the loop is
\* synchronous code and the agents return).
SpecGameFair == InitGame /\ [][NextGameFair]_vars /\ WF_vars(NextGameFair)

----------------------------------------------------------------------------
(* play_game with agents that answer anything, on a Board the caller has   *)
(* already played on.                                                      *)

\* Requests made of the agents in one run.
MaxPolls == 4

\* The Board after the moves of s, each applied by update.
RECURSIVE PlayFrom(_, _)
PlayFrom(b, s) ==
    IF s = << >> THEN b
    ELSE PlayFrom(update(b, Head(s), FALSE).val.board, Tail(s))

\* The boards play_game is started on: empty, O to move, X one move from a
\* line, won by X with cells left, and full without a line.
StartMoves == { << >>,
                << 4 >>,
                << 0, 3, 1, 4 >>,
                << 0, 3, 1, 4, 2 >>,
                << 0, 1, 2, 4, 3, 5, 7, 6, 8 >> }

StartBoards == { PlayFrom(initial_state, s) : s \in StartMoves }

\* The answers is_valid does not accept: the lowest occupied cell (9 on an
\* empty board), and a shift amount of the width of a u16.
InvalidChoices(b) ==
    LET occ == {c \in Cells : \E oc \in BOOLEAN : is_valid(b, c, oc) = Ok(FALSE)}
    IN  { IF occ = {} THEN 9 ELSE CHOOSE c \in occ : \A d \in occ : c <= d,
          U16_BITS }

AnyChoices(b) == ValidChoices(b) \cup InvalidChoices(b)

InitGameAny ==
    /\ panicked = FALSE
    /\ board \in StartBoards
    /\ op = "idle"
    /\ arg = 0
    /\ ret = NoRet
    /\ old = initial_state
    /\ iter = NoIter
    /\ yielded = << >>
    /\ nones = 0
    /\ agents \in AgentLists
    /\ pc = "while"
    /\ idx = 0
    /\ game_log = << >>
    /\ pass = 0
    /\ asked = << >>

NextGameAny ==
    \/ While
    \/ ForEnd
    \/ ForSkip
    \/ \E action \in AnyChoices(board), oc \in BOOLEAN :
           Len(asked) < MaxPolls /\ ForPoll(action, oc)

SpecGameAny == InitGameAny /\ [][NextGameAny]_vars

----------------------------------------------------------------------------
(* One iterator asked again and again: a client that keeps calling next()  *)
(* on the NextAction valid_actions() returned, past its first None.        *)

\* Calls of next() made on one iterator.
MaxNextCalls == 260

InitIter ==
    /\ panicked = FALSE
    /\ board \in StartBoards
    /\ op = "idle"
    /\ arg = 0
    /\ ret = NoRet
    /\ old = initial_state
    /\ iter = NoIter
    /\ yielded = << >>
    /\ nones = 0
    /\ agents = << >>
    /\ pc = "off"
    /\ idx = 0
    /\ game_log = << >>
    /\ pass = 0
    /\ asked = << >>

\* next() on the iterator of the call, whatever it has returned before.
IterNextAgain(oc) ==
    /\ op \in {"valid_actions", "next"}
    /\ ~panicked
    /\ Len(yielded) + nones < MaxNextCalls
    /\ LET n == next(iter, oc)
       IN  /\ op' = "next"
           /\ panicked' = n.panic
           /\ ret' = IF n.panic THEN Panic ELSE Ok(n.val.out)
           /\ iter' = IF n.panic THEN iter ELSE n.val.it
           /\ yielded' = IF n.panic \/ n.val.out = None THEN yielded
                         ELSE yielded \o n.val.out
           /\ nones' = IF n.panic \/ n.val.out # None THEN nones ELSE nones + 1
    /\ UNCHANGED << board, arg, old, GameVars >>

NextIter ==
    \/ ValidActions
    \/ \E oc \in BOOLEAN : IterNextAgain(oc)
    \/ Return

SpecIter == InitIter /\ [][NextIter]_vars

----------------------------------------------------------------------------
(* Vocabulary of the properties: occupancy as sets of cells.               *)

Bit(x, i) == (x \div (2 ^ i)) % 2 = 1

BitSet(x) == {i \in 0..(U16_BITS - 1) : Bit(x, i)}

Occupied(b) == BitSet(b.moves_x) \cup BitSet(b.moves_o)

Other(id) == IF id = "X" THEN "O" ELSE "X"

\* The action is one update accepts on b: a cell of the board, and empty.
Legal(b, a) == a \in Cells /\ a \notin Occupied(b)

\* is_valid(a) is true on b (an in-range action never shifts out of range).
ValidIn(b, a) == \E oc \in BOOLEAN : is_valid(b, a, oc) = Ok(TRUE)

Lines == { {0, 1, 2}, {3, 4, 5}, {6, 7, 8},
           {0, 3, 6}, {1, 4, 7}, {2, 5, 8},
           {0, 4, 8}, {2, 4, 6} }

HasLine(cells) == \E l \in Lines : l \subseteq cells

IsAscending(s) == \A i \in 1..(Len(s) - 1) : s[i] < s[i + 1]

Range(s) == {s[i] : i \in 1..Len(s)}

----------------------------------------------------------------------------
(* The Board's contract.                                                   *)

\* C1: an update with an action that is_valid accepts returns true, sets
\* exactly bit a in the mask of the player whose turn it was, leaves the other
\* mask as it was, and flips the turn.
C1_UpdateValid ==
    (op = "update" /\ ValidIn(old, arg)) =>
        /\ ret = Ok(TRUE)
        /\ arg \notin Occupied(old)
        /\ IF old.turn = "X"
           THEN /\ BitSet(board.moves_x) = BitSet(old.moves_x) \cup {arg}
                /\ board.moves_o = old.moves_o
           ELSE /\ BitSet(board.moves_o) = BitSet(old.moves_o) \cup {arg}
                /\ board.moves_x = old.moves_x
        /\ board.turn = Other(old.turn)
        /\ board.turn # old.turn

\* O has just marked cell 8 on a board that already held marks.
C1_Witness ==
    /\ op = "update"
    /\ ValidIn(old, arg)
    /\ old.turn = "O"
    /\ arg = 8
    /\ Cardinality(Occupied(old)) >= 3

\* C2: an update with an action that is_valid does not accept (an occupied
\* cell or an out-of-range value) returns false and leaves moves_x, moves_o
\* and turn as they were, without a panic.
C2_UpdateInvalid ==
    (op = "update" /\ ~Legal(old, arg)) =>
        /\ ret = Ok(FALSE)
        /\ board = old

\* C3: is_valid returns a bool for every action, and true exactly for the
\* cells 0..8 that neither player occupies.
C3_IsValid ==
    op = "is_valid" => ret = Ok(Legal(board, arg))

\* C4: moves_x and moves_o are disjoint and hold only bits 0..8 in every
\* state update calls reach, so Display never writes the cell "| ? |".
C4_Disjoint ==
    /\ BitAnd(board.moves_x, board.moves_o) = 0
    /\ board.moves_x <= full
    /\ board.moves_o <= full
    /\ op = "fmt" =>
           /\ BitSet(board.moves_x) \cap BitSet(board.moves_o) = {}
           /\ Occupied(board) \subseteq Cells
           /\ ret = Ok(fmt(board))
           /\ "| ? |" \notin Range(ret.val)

\* Display has written a full board.
C4_Witness ==
    /\ op = "fmt"
    /\ Occupied(board) = Cells
    /\ Len(ret.val) = 9

\* C5: what_if returns the Board that update(a) makes of a copy, the Board it
\* is called on is unchanged, and for an invalid action the Board returned
\* equals the Board it is called on.
C5_WhatIf ==
    op = "what_if" =>
        /\ board = old
        /\ ret = Ok(IF Legal(old, arg)
                    THEN IF old.turn = "X"
                         THEN Board(old.moves_x + 2 ^ arg, old.moves_o, "O")
                         ELSE Board(old.moves_x, old.moves_o + 2 ^ arg, "X")
                    ELSE old)

\* The actions is_valid accepts on b, over the whole Action type.
ValidSet(b) == {a \in 0..U8_MAX : ValidIn(b, a)}

\* The iterator made on `old` has returned its first None.
Exhausted == op = "next" /\ nones >= 1

\* C6 as stated: on every reachable Board, valid_actions() iterated to its
\* first None yields exactly the actions is_valid accepts, ascending, once each.
C6_AllBoards ==
    Exhausted => (IsAscending(yielded) /\ Range(yielded) = ValidSet(old))

\* C6 as amended: the same on every reachable Board that is not terminal.
C6_NonTerminal ==
    (Exhausted /\ ~is_terminal(old)) =>
        (IsAscending(yielded) /\ Range(yielded) = ValidSet(old))

\* A non-terminal board with marks of both players, iterated to None, cell 8
\* among the actions returned.
C6_Witness ==
    /\ Exhausted
    /\ ~is_terminal(old)
    /\ Cardinality(Occupied(old)) >= 4
    /\ Len(yielded) >= 2
    /\ 8 \in Range(yielded)

\* C7: on a terminal Board the iterator yields nothing: its first next(), and
\* every next() after it, returns None.
C7_TerminalYieldsNothing ==
    (op = "next" /\ is_terminal(old)) => (ret = Ok(None) /\ yielded = << >>)

\* A won board with empty cells, its iterator asked once.
C7_Witness ==
    /\ op = "next"
    /\ is_terminal(old)
    /\ winner(old) # None
    /\ Occupied(old) # Cells
    /\ nones = 1

\* C8: is_terminal is true exactly when winner() is Some or all nine cells are
\* occupied: a full board without a line is terminal with no winner, a board
\* with a line is terminal with cells left.
C8_Terminal ==
    op = "is_terminal" =>
        LET x == HasLine(BitSet(board.moves_x))
            o == HasLine(BitSet(board.moves_o))
            filled == Occupied(board) = Cells
        IN  /\ ret = Ok(is_terminal(board))
            /\ ret.val <=> (winner(board) # None \/ filled)
            /\ (filled /\ ~x /\ ~o) => (ret.val /\ winner(board) = None)
            /\ (x \/ o) => ret.val

\* is_terminal has answered true on a drawn board.
C8_Witness ==
    /\ op = "is_terminal"
    /\ ret = Ok(TRUE)
    /\ winner(board) = None
    /\ Occupied(board) = Cells

\* is_winning(p) is true exactly when p holds one of the eight lines.
IsWinningIsLine ==
    op = "is_winning" => ret = Ok(HasLine(BitSet(arg)))

\* C9 as stated: is_winning(p) holds exactly for the sets with a line, and
\* winner() is Some(P) exactly when P's set has a line, None otherwise.
C9_WinnerExactly ==
    /\ IsWinningIsLine
    /\ op = "winner" =>
           /\ \A P \in AgentId :
                  (ret = Ok(Some(P))) <=>
                      HasLine(BitSet(IF P = "X" THEN board.moves_x ELSE board.moves_o))
           /\ (ret = Ok(None)) <=>
                  (~HasLine(BitSet(board.moves_x)) /\ ~HasLine(BitSet(board.moves_o)))

\* C9 as amended: winner() is Some(X) exactly when X's set has a line, Some(O)
\* exactly when O's has one and X's has none, None when neither has.
C9_WinnerXFirst ==
    /\ IsWinningIsLine
    /\ op = "winner" =>
           LET x == HasLine(BitSet(board.moves_x))
               o == HasLine(BitSet(board.moves_o))
           IN  /\ (ret = Ok(Some("X"))) <=> x
               /\ (ret = Ok(Some("O"))) <=> (o /\ ~x)
               /\ (ret = Ok(None)) <=> (~x /\ ~o)

\* winner() has answered O on a board where only O has a line.
C9_Witness ==
    /\ op = "winner"
    /\ ret = Ok(Some("O"))
    /\ HasLine(BitSet(board.moves_o))

----------------------------------------------------------------------------
(* The driver.                                                             *)

\* C10: with an X agent and an O agent, in either order, that always answer
\* with a valid action, the log play_game returns alternates X, O, X, O, ...
\* from X, and its length is the number of marks on the final board.
C10_LogAlternates ==
    pc = "done" =>
        /\ \A i \in 1..Len(game_log) :
               game_log[i][1] = (IF i % 2 = 1 THEN "X" ELSE "O")
        /\ Len(game_log) = Cardinality(Occupied(board))
        /\ is_terminal(board)

\* play_game has returned a drawn game of nine moves, the O agent first in
\* the list.
C10_Witness ==
    /\ pc = "done"
    /\ agents = << "O", "X" >>
    /\ Len(game_log) = 9
    /\ winner(board) = None

\* The requests made so far, by their place in asked.
Asked == 1..Len(asked)

\* The answer of request i is one is_valid does not accept.
InvalidAnswer(i) == ~Legal(asked[i].before, asked[i].action)

\* C11: an invalid answer is still appended to the log as (identity,
\* action), leaves the turn and both masks as they were, and its agent is not
\* asked again in the same pass over the agent list.
C11_InvalidLogged ==
    \A i \in Asked :
        InvalidAnswer(i) =>
            /\ i <= Len(game_log)
            /\ game_log[i] = << asked[i].id, asked[i].action >>
            /\ asked[i].after = asked[i].before
            /\ \A j \in Asked :
                   (j # i /\ asked[j].pass = asked[i].pass)
                       => asked[j].agent # asked[i].agent

\* C12: from initial_state at most nine updates succeed and the ninth leaves
\* a terminal board; play_game with an X and an O agent that answer valid
\* actions returns, and the board is terminal whenever it has returned.
C12_Terminates ==
    /\ <>(pc = "done")
    /\ [](pc = "done" => is_terminal(board))
    /\ [](/\ Len(game_log) = Cardinality(Occupied(board))
          /\ Len(game_log) <= 9
          /\ (Len(game_log) = 9 => is_terminal(board)))

\* play_game has returned after nine updates, the last of them completing a
\* line.
C12_Witness ==
    /\ pc = "done"
    /\ Cardinality(Occupied(board)) = 9
    /\ winner(board) = Some("X")

\* The updates of the run that returned true.
Accepted == {i \in Asked : asked[i].result = "true"}

\* The updates of the run that returned, true or false.
Returned == {i \in Asked : asked[i].result # "panic"}

\* C13 as stated: the length of the log is the number of updates that
\* returned true.
C13_OnePerAccepted ==
    Len(game_log) = Cardinality(Accepted)

\* C13 as amended: the log only grows at its end, holds the answers in the
\* order they were submitted, and has one entry per update that returned,
\* true or false.
C13_OnePerSubmitted ==
    /\ [][/\ Len(game_log') >= Len(game_log)
          /\ SubSeq(game_log', 1, Len(game_log)) = game_log]_vars
    /\ [](/\ Len(game_log) = Cardinality(Returned)
          /\ \A i \in 1..Len(game_log) :
                 game_log[i] = << asked[i].id, asked[i].action >>)

\* The log holds a rejected answer followed by an accepted one.
C13_Witness ==
    /\ Len(game_log) >= 2
    /\ \E i \in 1..(Len(game_log) - 1) :
           asked[i].result = "false" /\ asked[i + 1].result = "true"

\* C14: an action is requested only of an agent whose identity is the turn
\* of the board at that moment, so every entry of the log carries the turn
\* at which its action was requested and submitted.
C14_AskedOnTurn ==
    \A i \in Asked :
        /\ asked[i].id = asked[i].turn
        /\ asked[i].id = agents[asked[i].agent]
        /\ asked[i].before.turn = asked[i].turn
        /\ i <= Len(game_log) => game_log[i][1] = asked[i].turn

\* With the O agent first in the list, O has been passed over, X asked, and
\* both asked in turn after that.
C14_Witness ==
    /\ agents = << "O", "X" >>
    /\ Len(game_log) >= 3
    /\ asked[1].agent = 2
    /\ asked[2].agent = 1
    /\ asked[2].pass > asked[1].pass

\* C15: no action is requested and no update made while the board is
\* terminal: the board is not terminal anywhere inside the for loop, and a run
\* started on a terminal board returns an empty log without entering it.
C15_NeverOnTerminal ==
    /\ \A i \in Asked : ~asked[i].terminal
    /\ pc = "for" => ~is_terminal(board)
    /\ pc = "done" => is_terminal(board)
    /\ (is_terminal(board) /\ asked = << >>) => (pass = 0 /\ game_log = << >>)

\* play_game has returned after a pass that it left by the break.
C15_Witness ==
    /\ pc = "done"
    /\ Len(asked) >= 1
    /\ asked[Len(asked)].result = "true"
    /\ idx <= Len(agents)

\* C16: with agents that have answered no valid action on a board that is
\* not terminal, play_game has not ended (neither returned nor aborted), the
\* board is as it was, and the log has one entry for every request.
C16_NeverValidRunsOn ==
    (~is_terminal(board) /\ \A i \in Asked : InvalidAnswer(i)) =>
        /\ ~panicked
        /\ pc # "done"
        /\ Len(game_log) = Len(asked)
        /\ \A i \in Asked : asked[i].after = asked[i].before /\ asked[i].after = board

\* C17 as stated: an update on a terminal board changes neither mask nor the
\* turn.
C17_TerminalFrozen ==
    (op = "update" /\ is_terminal(old)) => board = old

\* C17 as amended: an update on a terminal board leaves a terminal board; it
\* still marks an empty cell and flips the turn (is_valid does not look at
\* terminality), and changes nothing when it rejects the action, so no update
\* changes a full board.
C17_TerminalStays ==
    (op = "update" /\ is_terminal(old)) =>
        /\ is_terminal(board)
        /\ IF ret = Ok(TRUE)
           THEN /\ Legal(old, arg)
                /\ Occupied(board) = Occupied(old) \cup {arg}
                /\ board.turn # old.turn
           ELSE board = old
        /\ Occupied(old) = Cells => board = old

\* An update has marked an empty cell of a won board.
C17_Witness ==
    /\ op = "update"
    /\ is_terminal(old)
    /\ ret = Ok(TRUE)
    /\ board # old

\* C18: X has as many marks as O, or one more, and it is X's turn exactly
\* when the counts are equal.
C18_Counts ==
    op \in {"idle", "update"} =>
        LET nx == Cardinality(BitSet(board.moves_x))
            no == Cardinality(BitSet(board.moves_o))
        IN  /\ nx - no \in {0, 1}
            /\ board.turn = "X" <=> nx = no
            /\ board.turn = "O" <=> nx = no + 1

\* A rejected update has left O to move with X one mark ahead.
C18_Witness ==
    /\ op = "update"
    /\ ret = Ok(FALSE)
    /\ board.turn = "O"
    /\ Cardinality(BitSet(board.moves_x)) = 3
    /\ Cardinality(BitSet(board.moves_o)) = 2

\* C19: when updates are made on non-terminal boards only, as play_game makes
\* them, at most one player has a line, and the winner is the player of the
\* last accepted move, not the player whose turn it is.
C19_WinnerMovedLast ==
    LET x == HasLine(BitSet(board.moves_x))
        o == HasLine(BitSet(board.moves_o))
    IN  /\ ~(x /\ o)
        /\ \A P \in AgentId :
               winner(board) = Some(P) =>
                   /\ P # turn(board)
                   /\ game_log # << >>
                   /\ game_log[Len(game_log)][1] = P

\* O has won a game play_game has returned from.
C19_Witness ==
    /\ pc = "done"
    /\ winner(board) = Some("O")
    /\ turn(board) = "X"

\* C20: once next() has returned None on an iterator, every later next() on
\* it returns None as well: none panics on the overflow of `current`, and
\* none yields an action again.
C20_NoneForever ==
    (op = "next" /\ nones >= 1) =>
        /\ ~panicked
        /\ ret = Ok(None)
        /\ Len(yielded) <= 9

====
